---- MODULE Spec2Model ----
(***************************************************************************)
(* The authenticated-request pipeline of the gigago client: the Token      *)
(* Store (Client.accessToken, Client.tokenExpiry), the Authenticator       *)
(* (Client.GetAccessToken), the freshness check (Client.ensureToken), the  *)
(* Executor (Client.makeRequest) and the endpoint wrappers that call it,   *)
(* with UploadFileReader, which talks to the transport on its own.         *)
(*                                                                         *)
(* A call is cut at its network round trips: every action is the code that *)
(* runs between two calls of httpClient.Do.  The transport is the          *)
(* environment: it answers every request with a transport failure, a       *)
(* cancellation, or a response (status, body) chosen from small sets.      *)
(* Time is counted in minutes.                                             *)
(***************************************************************************)
EXTENDS Integers, Sequences, FiniteSets, TLC

VARIABLES
    baseURL,        \* Client.baseURL
    authURL,        \* Client.authURL
    authorization,  \* Client.authorization
    accessToken,    \* Client.accessToken
    tokenExpiry,    \* Client.tokenExpiry
    now,            \* time.Now()
    pc,             \* per caller: where its call stands
    wrapper,        \* per caller: the endpoint wrapper it is running
    tok0,           \* per caller: accessToken when the call began
    exp0,           \* per caller: tokenExpiry when the call began
    now0,           \* per caller: time.Now() when the call began
    authCalls,      \* per caller: GetAccessToken invocations of this call
    authOks,        \* per caller: those that returned nil
    refreshes,      \* per caller: those made because of a 401
    authRes,        \* per caller: what the auth endpoint answered last
    granted,        \* per caller: the body of the last answer GetAccessToken accepted
    sends,          \* per caller: resource requests handed to httpClient.Do
    bearer1,        \* per caller: Authorization header of the first send
    bearer,         \* per caller: Authorization header of req now
    resp1,          \* per caller: the transport's answer to the first send
    resp2,          \* per caller: the transport's answer to the resend
    mrResp,         \* per caller: the *http.Response makeRequest returned
    wire1,          \* per caller: the first request as the transport wrote it
    wire2,          \* per caller: the resent request as the transport wrote it
    result,         \* per caller: the value the wrapper returned with err
    err,            \* per caller: the error the wrapper returned
    llmOp,          \* per caller: the method of the adapter that called Chat
    llmOut,         \* per caller: what that method returned
    authKey,        \* history: the secret NewClient was given
    overlapped,     \* history: two calls have been running at the same time
    staleAuths      \* history: invocations made by the freshness check since
                    \* the Token Store was last written (counted up to 2)

vars == << baseURL, authURL, authorization, authKey, accessToken, tokenExpiry, now, pc, wrapper, tok0,
           exp0, now0, authCalls, authOks, refreshes, authRes, granted, sends,
           bearer1, bearer, resp1, resp2, mrResp, wire1, wire2, result, err,
           llmOp, llmOut, overlapped, staleAuths >>

store == << accessToken, tokenExpiry >>

locals == << wrapper, tok0, exp0, now0, authCalls, authOks, refreshes, authRes,
            granted, sends, bearer1, bearer, resp1, resp2, mrResp, result,
            err, wire1, wire2 >>

\* The history variables: no action of the program reads them.
aux == << authKey, overlapped, staleAuths >>

\* The requests of a call as they went to the resource endpoint.
wire == << wire1, wire2 >>

\* The langchaingo adapter (package model).
adapter == << llmOp, llmOut >>

\* The fields of the client that are set at construction only.
config == << baseURL, authURL, authorization >>

(***************************************************************************)
(* Bounds of the model.                                                    *)
(***************************************************************************)
MaxNow == 1
MaxExpiresAt == 6

Callers == {1, 2}

(***************************************************************************)
(* Constants of the program.                                               *)
(***************************************************************************)
\* -5*time.Minute in ensureToken, in minutes
SafetyMargin == 5
\* time.Time{} (January 1, year 1), in minutes from the Unix epoch
ZeroTime == -1035593280
StatusOK == 200
StatusUnauthorized == 401
AuthKey == "abc"

\* The secrets a caller passes to NewClient: the bare credential, or the
\* credential with the scheme word in front.
AuthKeys == {AuthKey, "Basic " \o AuthKey}

\* access_token values the auth endpoint may issue ("" when the field is absent)
TokenValues == {"", "tok1", "tok2"}

\* A body is text; json tells whether it parses as a JSON object, the fields
\* access_token and expires_at are what TokenResponse reads from it, and
\* choices is what ChatResponse reads from it: the message contents of its
\* choices (zero values when absent).
NotJson ==
    [json |-> FALSE, access_token |-> "", expires_at |-> 0, choices |-> <<>>]
EmptyObject ==
    [json |-> TRUE, access_token |-> "", expires_at |-> 0, choices |-> <<>>]
NoBody ==
    [json |-> FALSE, access_token |-> "-", expires_at |-> 0, choices |-> <<>>]

\* expires_at values the auth endpoint may send: 0 when the field is absent
\* (every value below SafetyMargin is stale at every time of the model), and
\* the values the clock of the model can come within SafetyMargin of.
ExpiresAtValues == {0} \cup (SafetyMargin..MaxExpiresAt)

TokenBody(t, e) ==
    [json |-> TRUE, access_token |-> t, expires_at |-> e, choices |-> <<>>]

TokenBodies == {TokenBody(t, e) : t \in TokenValues, e \in ExpiresAtValues}

\* Bodies of the chat endpoint: no choice, one choice, two choices.
ChatBody(cs) ==
    [json |-> TRUE, access_token |-> "", expires_at |-> 0, choices |-> cs]

ChatBodies == {ChatBody(cs) : cs \in {<<>>, <<"">>, <<"hi">>, <<"hi", "bye">>}}

\* What httpClient.Do returns: cause # "" is the error, else a response.
Failed(c) == [cause |-> c, status |-> 0, body |-> NoBody]
Response(s, b) == [cause |-> "", status |-> s, body |-> b]
NoResult == Failed("-")

TransportErrs == {"transport", "cancelled"}

AuthResults ==
    {Failed(c) : c \in TransportErrs}
    \cup {Response(StatusOK, b) : b \in TokenBodies \cup {NotJson}}
    \cup {Response(500, b) : b \in {NotJson, EmptyObject}}

ResourceResults ==
    {Failed(c) : c \in TransportErrs}
    \cup {Response(s, b) : s \in {StatusOK, 500}, b \in {NotJson, EmptyObject}}
    \cup {Response(s, EmptyObject) : s \in {204, StatusUnauthorized, 403}}

\* An error value: the message's fixed part, what it wraps, and the status
\* code and body text formatted into it.
Err(m, inner, cause, s, b) ==
    [msg |-> m, inner |-> inner, cause |-> cause, status |-> s, body |-> b]
NoErr == Err("", "", "", 0, NoBody)

(***************************************************************************)
(* NewClient                                                               *)
(***************************************************************************)
NewClient(k) ==
    [baseURL       |-> "https://gigachat.devices.sberbank.ru/api/v1",
     authURL       |-> "https://ngw.devices.sberbank.ru:9443/api/v2/oauth",
     authorization |-> "Basic " \o k,
     accessToken   |-> "",
     tokenExpiry   |-> ZeroTime]

(***************************************************************************)
(* The endpoint wrappers.                                                  *)
(***************************************************************************)
Wrappers == {"GetModels", "Chat", "CreateEmbeddings", "UploadFileReader",
             "GetFiles", "GetFile", "DeleteFile", "DownloadFile"}

UsesMakeRequest(w) == w # "UploadFileReader"

HasBody(w) == w \in {"Chat", "CreateEmbeddings"}

Method(w) ==
    CASE w \in {"Chat", "CreateEmbeddings", "UploadFileReader"} -> "POST"
      [] w = "DeleteFile" -> "DELETE"
      [] OTHER -> "GET"

Path(w) ==
    CASE w = "GetModels" -> "/models"
      [] w = "Chat" -> "/chat/completions"
      [] w = "CreateEmbeddings" -> "/embeddings"
      [] w \in {"UploadFileReader", "GetFiles"} -> "/files"
      [] w = "DownloadFile" -> "/files/id/content"
      [] OTHER -> "/files/id"

\* The body reader of the request the wrapper builds: bytes.NewBuffer of the
\* marshalled JSON, the multipart buffer of UploadFileReader, or none.
RequestBody(w) ==
    IF HasBody(w) THEN "json"
    ELSE IF w = "UploadFileReader" THEN "multipart" ELSE "none"

\* What is left to read in the body reader after httpClient.Do has written
\* the request: the transport has read the buffer to its end.
BodyLeft(b) == IF b = "none" THEN "none" ELSE "drained"

\* A request as the transport writes it.
Request(w, b) == [method |-> Method(w), path |-> Path(w), body |-> b]
NoRequest == [method |-> "-", path |-> "-", body |-> "-"]

\* What the wrapper says it failed to do, in its status error.
FailedTo(w) ==
    CASE w = "GetModels" -> "failed to get models with status"
      [] w = "Chat" -> "failed to chat with status"
      [] w = "CreateEmbeddings" -> "failed to create embeddings with status"
      [] w = "UploadFileReader" -> "failed to upload file with status"
      [] w = "GetFiles" -> "failed to get files with status"
      [] w = "GetFile" -> "failed to get file with status"
      [] w = "DeleteFile" -> "failed to delete file with status"
      [] OTHER -> "failed to download file with status"

\* The wrapper's json.NewDecoder(resp.Body).Decode; DeleteFile decodes nothing
\* and DownloadFile returns the bytes as they are.
DecodeFails(w) ==
    CASE w \in {"DeleteFile", "DownloadFile"} -> "never"
      [] w \in {"UploadFileReader", "GetFile"} -> "failed to decode file response"
      [] w = "GetModels" -> "failed to decode models response"
      [] w = "Chat" -> "failed to decode chat response"
      [] w = "CreateEmbeddings" -> "failed to decode embeddings response"
      [] OTHER -> "failed to decode files response"

\* WrapperResult taking every 2xx status for a success.
WrapperResultAny2xx(w, r) ==
    IF r.status < 200 \/ r.status > 299
      THEN Err(FailedTo(w), "", "", r.status, r.body)
      ELSE IF DecodeFails(w) # "never" /\ ~r.body.json
             THEN Err(DecodeFails(w), "", "", 0, NoBody)
             ELSE NoErr

\* What a wrapper returns for the response r it got.
WrapperResult(w, r) ==
    IF r.status # StatusOK
      THEN Err(FailedTo(w), "", "", r.status, r.body)
      ELSE IF DecodeFails(w) # "never" /\ ~r.body.json
             THEN Err(DecodeFails(w), "", "", 0, NoBody)
             ELSE NoErr

\* The value a wrapper returns with the error e: the decoded structure, the
\* bytes of the body (DownloadFile), or nothing (DeleteFile, and every error).
WrapperValue(w, e) ==
    IF e.msg # "" \/ w = "DeleteFile" THEN "nil"
    ELSE IF w = "DownloadFile" THEN "bytes" ELSE "typed"

(***************************************************************************)
(* The langchaingo adapter: LLM.Call and LLM.GenerateContent.              *)
(***************************************************************************)
LLMOps == {"Call", "GenerateContent"}

\* What a method of the adapter returns: its value ("string" for Call, a
\* "response" or "nil" for GenerateContent), the content in the value, and
\* the error with the message of the error it wraps.
LLMOut(v, c, m, inner) == [value |-> v, content |-> c, err |-> m, inner |-> inner]
NoOutput == LLMOut("-", "", "", "")

\* The choices of the ChatResponse that Chat returns with the error e for the
\* response r: nothing decoded when it returns an error.
ChatChoices(e, r) == IF e.msg # "" THEN <<>> ELSE r.body.choices

\* LLMResult returning the last choice.
LLMResultLastChoice(op, e, choices) ==
    IF e.msg # ""
      THEN LLMOut(IF op = "Call" THEN "string" ELSE "nil", "",
                  IF op = "Call" THEN "failed to call GigaChat"
                                 ELSE "failed to generate content", e.msg)
      ELSE IF Len(choices) = 0
             THEN LLMOut(IF op = "Call" THEN "string" ELSE "nil", "",
                         "no response from GigaChat", "")
             ELSE LLMOut(IF op = "Call" THEN "string" ELSE "response",
                         choices[Len(choices)], "", "")

\* What the method op of the adapter returns when Chat has returned the
\* error e and a response with these choices.
LLMResult(op, e, choices) ==
    IF e.msg # ""
      THEN LLMOut(IF op = "Call" THEN "string" ELSE "nil", "",
                  IF op = "Call" THEN "failed to call GigaChat"
                                 ELSE "failed to generate content", e.msg)
      ELSE IF Len(choices) = 0
             THEN LLMOut(IF op = "Call" THEN "string" ELSE "nil", "",
                         "no response from GigaChat", "")
             ELSE LLMOut(IF op = "Call" THEN "string" ELSE "response",
                         choices[1], "", "")

(***************************************************************************)
(* Init: the client NewClient returns, at some time, with no call running. *)
(***************************************************************************)
\* The client that NewClient(k) returns, before its first call.
Constructed(k) ==
    /\ authKey = k
    /\ baseURL = NewClient(authKey).baseURL
    /\ authURL = NewClient(authKey).authURL
    /\ authorization = NewClient(authKey).authorization
    /\ accessToken = NewClient(authKey).accessToken
    /\ tokenExpiry = NewClient(authKey).tokenExpiry
    /\ now = 0
    /\ pc = [p \in Callers |-> "idle"]
    /\ wrapper = [p \in Callers |-> "-"]
    /\ tok0 = [p \in Callers |-> ""]
    /\ exp0 = [p \in Callers |-> ZeroTime]
    /\ now0 = [p \in Callers |-> 0]
    /\ authCalls = [p \in Callers |-> 0]
    /\ authOks = [p \in Callers |-> 0]
    /\ refreshes = [p \in Callers |-> 0]
    /\ authRes = [p \in Callers |-> NoResult]
    /\ granted = [p \in Callers |-> NoBody]
    /\ sends = [p \in Callers |-> 0]
    /\ bearer1 = [p \in Callers |-> "-"]
    /\ bearer = [p \in Callers |-> "-"]
    /\ resp1 = [p \in Callers |-> NoResult]
    /\ resp2 = [p \in Callers |-> NoResult]
    /\ mrResp = [p \in Callers |-> NoResult]
    /\ wire1 = [p \in Callers |-> NoRequest]
    /\ wire2 = [p \in Callers |-> NoRequest]
    /\ result = [p \in Callers |-> "-"]
    /\ err = [p \in Callers |-> NoErr]
    /\ llmOp = [p \in Callers |-> "-"]
    /\ llmOut = [p \in Callers |-> NoOutput]
    /\ overlapped = FALSE
    /\ staleAuths = 0

\* The client constructed from the bare credential.
Init == Constructed(AuthKey)

\* The client constructed from any of the secrets.
InitNew == \E k \in AuthKeys : Constructed(k)

(***************************************************************************)
(* GetAccessToken                                                          *)
(***************************************************************************)
\* time.Unix(sec, 0): the instant sec units after the epoch; the model counts
\* both in minutes.
TimeUnix(sec) == sec

\* GetAccessToken without its check of resp.StatusCode.
AuthErrorIgnoresStatus(r) ==
    IF r.cause # ""
      THEN Err("failed to send request", "", r.cause, 0, NoBody)
      ELSE IF ~r.body.json
             THEN Err("failed to decode response", "", "", 0, NoBody)
             ELSE NoErr

\* The error GetAccessToken returns for what the transport answered.
AuthError(r) ==
    IF r.cause # ""
      THEN Err("failed to send request", "", r.cause, 0, NoBody)
      ELSE IF r.status # StatusOK
             THEN Err("auth failed with status", "", "", r.status, r.body)
             ELSE IF ~r.body.json
                    THEN Err("failed to decode response", "", "", 0, NoBody)
                    ELSE NoErr

\* GetAccessToken dropping the old token before it asks for a new one.
StoreAfterAuthClearsFirst(r, tok, exp) ==
    IF AuthError(r).msg = ""
      THEN << r.body.access_token, TimeUnix(r.body.expires_at) >>
      ELSE << "", ZeroTime >>

\* GetAccessToken storing the token without its expiry.
StoreAfterAuthTokenOnly(r, tok, exp) ==
    IF AuthError(r).msg = ""
      THEN << r.body.access_token, exp >>
      ELSE << tok, exp >>

\* The Token Store GetAccessToken leaves behind, from the store <<tok, exp>>.
StoreAfterAuth(r, tok, exp) ==
    IF AuthError(r).msg = ""
      THEN << r.body.access_token, TimeUnix(r.body.expires_at) >>
      ELSE << tok, exp >>

(***************************************************************************)
(* ensureToken                                                             *)
(***************************************************************************)
\* ensureToken without its test of the empty token.
TokenStaleExpiryOnly(tok, exp, t) == t > exp - SafetyMargin

\* ensureToken with Before in place of After.
TokenStaleBefore(tok, exp, t) == tok = "" \/ t < exp - SafetyMargin

\* c.accessToken == "" || time.Now().After(c.tokenExpiry.Add(-5*time.Minute))
TokenStale(tok, exp, t) == tok = "" \/ t > exp - SafetyMargin

(***************************************************************************)
(* makeRequest and UploadFileReader                                        *)
(***************************************************************************)
\* "Bearer "+c.accessToken
BearerHeader(tok) == "Bearer " \o tok

\* makeRequest testing for http.StatusForbidden instead.
UnauthorizedAsForbidden(r) == r.status = 403

\* makeRequest retrying on every status from 400 on.
UnauthorizedAnyFailure(r) == r.status >= 400

\* resp.StatusCode == http.StatusUnauthorized
Unauthorized(r) == r.status = StatusUnauthorized

\* Whether the answer to the first send makes the caller refresh and resend.
RefreshAndRetry(w, r) == UsesMakeRequest(w) /\ Unauthorized(r)

\* What may stop the request from being built: json.Marshal of the body,
\* http.NewRequestWithContext, and, in UploadFileReader, reading the file.
BuildFailures(w) ==
    {"failed to create request"}
    \cup (IF UsesMakeRequest(w) /\ HasBody(w)
            THEN {"failed to marshal request body"} ELSE {})
    \cup (IF ~UsesMakeRequest(w)
            THEN {"failed to create form file", "failed to copy file content",
                  "failed to write purpose field"}
            ELSE {})

ContentTypes == {"", "application/octet-stream", "text/plain"}

\* UploadFileReader's check of its contentType argument
InvalidContentType(ct) == ct = "" \/ ct = "application/octet-stream"

Finish(p, e) ==
    /\ pc' = [pc EXCEPT ![p] = "done"]
    /\ err' = [err EXCEPT ![p] = e]
    /\ result' = [result EXCEPT ![p] = WrapperValue(wrapper[p], e)]

\* The wrapper is called: it checks its arguments and runs ensureToken up to
\* the call of GetAccessToken.
Begin(p, w, ct) ==
    /\ pc[p] = "idle"
    /\ wrapper' = [wrapper EXCEPT ![p] = w]
    /\ tok0' = [tok0 EXCEPT ![p] = accessToken]
    /\ exp0' = [exp0 EXCEPT ![p] = tokenExpiry]
    /\ now0' = [now0 EXCEPT ![p] = now]
    /\ IF ~UsesMakeRequest(w) /\ InvalidContentType(ct)
         THEN /\ Finish(p, Err("invalid content type", "", "", 0, NoBody))
              /\ UNCHANGED authCalls
         ELSE IF TokenStale(accessToken, tokenExpiry, now)
                THEN /\ pc' = [pc EXCEPT ![p] = "auth"]
                     /\ authCalls' = [authCalls EXCEPT ![p] = 1]
                     /\ UNCHANGED << err, result >>
                ELSE /\ pc' = [pc EXCEPT ![p] = "build"]
                     /\ UNCHANGED << authCalls, err, result >>
    /\ UNCHANGED << config, wire, store, now, authOks, refreshes, authRes,
                    granted, sends, bearer1, bearer, resp1, resp2, mrResp >>

\* The auth endpoint answers the GetAccessToken that ensureToken called.
AuthReply(p, r) ==
    /\ pc[p] = "auth"
    /\ authRes' = [authRes EXCEPT ![p] = r]
    /\ accessToken' = StoreAfterAuth(r, accessToken, tokenExpiry)[1]
    /\ tokenExpiry' = StoreAfterAuth(r, accessToken, tokenExpiry)[2]
    /\ IF AuthError(r).msg # ""
         THEN /\ Finish(p, AuthError(r))
              /\ UNCHANGED << authOks, granted >>
         ELSE /\ pc' = [pc EXCEPT ![p] = "build"]
              /\ authOks' = [authOks EXCEPT ![p] = @ + 1]
              /\ granted' = [granted EXCEPT ![p] = r.body]
              /\ UNCHANGED << err, result >>
    /\ UNCHANGED << config, wire, now, wrapper, tok0, exp0, now0, authCalls,
                    refreshes, sends, bearer1, bearer, resp1, resp2, mrResp >>

\* The request is built with the token of the store and handed to the transport.
Send(p) ==
    /\ pc[p] = "build"
    /\ pc' = [pc EXCEPT ![p] = "wait1"]
    /\ bearer1' = [bearer1 EXCEPT ![p] = BearerHeader(accessToken)]
    /\ bearer' = [bearer EXCEPT ![p] = BearerHeader(accessToken)]
    /\ sends' = [sends EXCEPT ![p] = @ + 1]
    /\ wire1' = [wire1 EXCEPT ![p] =
                    Request(wrapper[p], RequestBody(wrapper[p]))]
    /\ UNCHANGED << config, wire2, store, now, wrapper, tok0, exp0, now0,
                    authCalls, authOks, refreshes, authRes, granted, resp1,
                    resp2, mrResp, err, result >>

\* The request cannot be built: the call returns before any send.
BuildFails(p, m) ==
    /\ pc[p] = "build"
    /\ m \in BuildFailures(wrapper[p])
    /\ Finish(p, Err(m, "", "", 0, NoBody))
    /\ UNCHANGED << config, wire, store, now, wrapper, tok0, exp0, now0,
                    authCalls, authOks, refreshes, authRes, granted, sends,
                    bearer1, bearer, resp1, resp2, mrResp >>

\* The transport answers the first send.
Reply1(p, r) ==
    /\ pc[p] = "wait1"
    /\ resp1' = [resp1 EXCEPT ![p] = r]
    /\ IF r.cause # ""
         THEN /\ Finish(p, Err("failed to send request", "", r.cause, 0, NoBody))
              /\ UNCHANGED << authCalls, refreshes, mrResp >>
         ELSE IF RefreshAndRetry(wrapper[p], r)
                THEN /\ pc' = [pc EXCEPT ![p] = "reauth"]
                     /\ authCalls' = [authCalls EXCEPT ![p] = @ + 1]
                     /\ refreshes' = [refreshes EXCEPT ![p] = @ + 1]
                     /\ UNCHANGED << mrResp, err, result >>
                ELSE /\ Finish(p, WrapperResult(wrapper[p], r))
                     /\ mrResp' = [mrResp EXCEPT ![p] = r]
                     /\ UNCHANGED << authCalls, refreshes >>
    /\ UNCHANGED << config, wire, store, now, wrapper, tok0, exp0, now0,
                    authOks, authRes, granted, sends, bearer1, bearer, resp2 >>

\* The auth endpoint answers the GetAccessToken called after a 401.
ReauthReply(p, r) ==
    /\ pc[p] = "reauth"
    /\ authRes' = [authRes EXCEPT ![p] = r]
    /\ accessToken' = StoreAfterAuth(r, accessToken, tokenExpiry)[1]
    /\ tokenExpiry' = StoreAfterAuth(r, accessToken, tokenExpiry)[2]
    /\ IF AuthError(r).msg # ""
         THEN /\ Finish(p, Err("failed to refresh token", AuthError(r).msg,
                               AuthError(r).cause, AuthError(r).status,
                               AuthError(r).body))
              /\ UNCHANGED << authOks, granted >>
         ELSE /\ pc' = [pc EXCEPT ![p] = "resend"]
              /\ authOks' = [authOks EXCEPT ![p] = @ + 1]
              /\ granted' = [granted EXCEPT ![p] = r.body]
              /\ UNCHANGED << err, result >>
    /\ UNCHANGED << config, wire, now, wrapper, tok0, exp0, now0, authCalls,
                    refreshes, sends, bearer1, bearer, resp1, resp2, mrResp >>

\* req gets the new Authorization header and goes to the transport again.
Resend(p) ==
    /\ pc[p] = "resend"
    /\ pc' = [pc EXCEPT ![p] = "wait2"]
    /\ bearer' = [bearer EXCEPT ![p] = BearerHeader(accessToken)]
    /\ sends' = [sends EXCEPT ![p] = @ + 1]
    /\ wire2' = [wire2 EXCEPT ![p] =
                    Request(wrapper[p], BodyLeft(wire1[p].body))]
    /\ UNCHANGED << config, wire1, store, now, wrapper, tok0, exp0, now0,
                    authCalls, authOks, refreshes, authRes, granted, bearer1,
                    resp1, resp2, mrResp, err, result >>

\* Reply2 of a makeRequest that refreshes the token again when the resend too
\* is answered with 401.
Reply2Loops(p, r) ==
    /\ pc[p] = "wait2"
    /\ resp2' = [resp2 EXCEPT ![p] = r]
    /\ IF r.cause = "" /\ Unauthorized(r) /\ authCalls[p] < 4
         THEN /\ pc' = [pc EXCEPT ![p] = "reauth"]
              /\ authCalls' = [authCalls EXCEPT ![p] = @ + 1]
              /\ UNCHANGED << mrResp, err, result >>
         ELSE /\ UNCHANGED authCalls
              /\ IF r.cause # ""
                   THEN /\ Finish(p, Err("failed to retry request", "", r.cause,
                                         0, NoBody))
                        /\ UNCHANGED mrResp
                   ELSE /\ Finish(p, WrapperResult(wrapper[p], r))
                        /\ mrResp' = [mrResp EXCEPT ![p] = r]
    /\ UNCHANGED << config, wire, store, now, wrapper, tok0, exp0, now0,
                    authOks, refreshes, authRes, granted, sends, bearer1,
                    bearer, resp1 >>

\* The transport answers the resend; makeRequest returns, and the wrapper too.
Reply2(p, r) ==
    /\ pc[p] = "wait2"
    /\ resp2' = [resp2 EXCEPT ![p] = r]
    /\ IF r.cause # ""
         THEN /\ Finish(p, Err("failed to retry request", "", r.cause, 0, NoBody))
              /\ UNCHANGED mrResp
         ELSE /\ Finish(p, WrapperResult(wrapper[p], r))
              /\ mrResp' = [mrResp EXCEPT ![p] = r]
    /\ UNCHANGED << config, wire, store, now, wrapper, tok0, exp0, now0,
                    authCalls, authOks, refreshes, authRes, granted, sends,
                    bearer1, bearer, resp1 >>

\* The caller has its result; the call's locals are gone.
Return(p) ==
    /\ pc[p] = "done"
    /\ pc' = [pc EXCEPT ![p] = "idle"]
    /\ wrapper' = [wrapper EXCEPT ![p] = "-"]
    /\ tok0' = [tok0 EXCEPT ![p] = ""]
    /\ exp0' = [exp0 EXCEPT ![p] = ZeroTime]
    /\ now0' = [now0 EXCEPT ![p] = 0]
    /\ authCalls' = [authCalls EXCEPT ![p] = 0]
    /\ authOks' = [authOks EXCEPT ![p] = 0]
    /\ refreshes' = [refreshes EXCEPT ![p] = 0]
    /\ authRes' = [authRes EXCEPT ![p] = NoResult]
    /\ granted' = [granted EXCEPT ![p] = NoBody]
    /\ sends' = [sends EXCEPT ![p] = 0]
    /\ bearer1' = [bearer1 EXCEPT ![p] = "-"]
    /\ bearer' = [bearer EXCEPT ![p] = "-"]
    /\ resp1' = [resp1 EXCEPT ![p] = NoResult]
    /\ resp2' = [resp2 EXCEPT ![p] = NoResult]
    /\ mrResp' = [mrResp EXCEPT ![p] = NoResult]
    /\ wire1' = [wire1 EXCEPT ![p] = NoRequest]
    /\ wire2' = [wire2 EXCEPT ![p] = NoRequest]
    /\ result' = [result EXCEPT ![p] = "-"]
    /\ err' = [err EXCEPT ![p] = NoErr]
    /\ UNCHANGED << config, store, now >>

\* Time passes between the calls and while a caller waits for the network.
Tick ==
    /\ now < MaxNow
    /\ \A p \in Callers : pc[p] \in {"idle", "auth", "wait1", "reauth", "wait2"}
    /\ now' = now + 1
    /\ UNCHANGED << config, store, pc, locals >>

\* The client is not safe for concurrent use: callers serialize their calls.
Serialized(p) == \A q \in Callers \ {p} : pc[q] = "idle"

Next ==
    \/ \E p \in Callers, w \in Wrappers, ct \in ContentTypes :
          Serialized(p) /\ Begin(p, w, ct) /\ UNCHANGED << aux, adapter >>
    \/ \E p \in Callers, r \in AuthResults :
          Serialized(p) /\ AuthReply(p, r) /\ UNCHANGED << aux, adapter >>
    \/ \E p \in Callers : Serialized(p) /\ Send(p) /\ UNCHANGED << aux, adapter >>
    \/ \E p \in Callers : \E m \in BuildFailures(wrapper[p]) :
          Serialized(p) /\ BuildFails(p, m) /\ UNCHANGED << aux, adapter >>
    \/ \E p \in Callers, r \in ResourceResults :
          Serialized(p) /\ Reply1(p, r) /\ UNCHANGED << aux, adapter >>
    \/ \E p \in Callers, r \in AuthResults :
          Serialized(p) /\ ReauthReply(p, r) /\ UNCHANGED << aux, adapter >>
    \/ \E p \in Callers : Serialized(p) /\ Resend(p) /\ UNCHANGED << aux, adapter >>
    \/ \E p \in Callers, r \in ResourceResults :
          Serialized(p) /\ Reply2(p, r) /\ UNCHANGED << aux, adapter >>
    \/ \E p \in Callers : Serialized(p) /\ Return(p) /\ UNCHANGED << aux, adapter >>
    \/ Tick /\ UNCHANGED << aux, adapter >>

Spec == Init /\ [][Next]_vars

\* The same calls on a client constructed from any of the secrets.
SpecNew == InitNew /\ [][Next]_vars

(***************************************************************************)
(* Concurrent callers: the calls of the callers interleave at every        *)
(* statement that reads or writes the Token Store and at every network     *)
(* round trip.  Nothing in the client orders them.                         *)
(***************************************************************************)
ConcWrappers == {"GetModels"}

ConcAuthResults ==
    {Failed("transport"),
     Response(StatusOK, TokenBody("tok1", SafetyMargin)),
     Response(StatusOK, TokenBody("tok2", MaxExpiresAt))}

ConcResourceResults ==
    {Response(StatusOK, EmptyObject), Response(StatusUnauthorized, EmptyObject)}

\* Some other caller is inside a call.
OthersRunning(p) == \E q \in Callers \ {p} : pc[q] \notin {"idle", "done"}

\* The history of a step in which GetAccessToken may have written the store.
AuthHistory(p) ==
    /\ staleAuths' = IF authOks'[p] # authOks[p] THEN 0 ELSE staleAuths
    /\ UNCHANGED << authKey, overlapped, adapter >>

NextConc ==
    \/ \E p \in Callers, w \in ConcWrappers :
          /\ Begin(p, w, "text/plain")
          /\ overlapped' = (overlapped \/ OthersRunning(p))
          /\ staleAuths' = IF pc'[p] = "auth" /\ staleAuths < 2
                             THEN staleAuths + 1 ELSE staleAuths
          /\ UNCHANGED << authKey, adapter >>
    \/ \E p \in Callers, r \in ConcAuthResults : AuthReply(p, r) /\ AuthHistory(p)
    \/ \E p \in Callers : Send(p) /\ UNCHANGED << aux, adapter >>
    \/ \E p \in Callers : \E m \in BuildFailures(wrapper[p]) :
          BuildFails(p, m) /\ UNCHANGED << aux, adapter >>
    \/ \E p \in Callers, r \in ConcResourceResults : Reply1(p, r) /\ UNCHANGED << aux, adapter >>
    \/ \E p \in Callers, r \in ConcAuthResults : ReauthReply(p, r) /\ AuthHistory(p)
    \/ \E p \in Callers : Resend(p) /\ UNCHANGED << aux, adapter >>
    \/ \E p \in Callers, r \in ConcResourceResults : Reply2(p, r) /\ UNCHANGED << aux, adapter >>
    \/ \E p \in Callers : Return(p) /\ UNCHANGED << aux, adapter >>
    \/ Tick /\ UNCHANGED << aux, adapter >>

SpecConc == Init /\ [][NextConc]_vars

(***************************************************************************)
(* Predicates on a call.                                                   *)
(***************************************************************************)
Done(p) == pc[p] = "done"

\* The call got as far as ensureToken (UploadFileReader may return before it).
Running(p) == pc[p] # "idle" /\ err[p].msg # "invalid content type"

\* The first answer to the resource request was a response with status 401.
First401(p) == resp1[p].cause = "" /\ resp1[p].status = 401

\* The transport's answer a to an auth request is no token: a transport
\* failure, a status other than 200, or a body that does not decode.
AuthFailure(a) == a.cause # "" \/ a.status # 200 \/ ~a.body.json

\* Authenticator invocations made by the freshness check of the call.
EnsureCalls(p) == authCalls[p] - refreshes[p]

\* The call began with a stored token that expires more than 5 minutes later.
BeganFresh(p) == tok0[p] # "" /\ exp0[p] > now0[p] + 5

\* The call began with a stored token that expires within 5 minutes, the
\* boundary included, or has expired.
BeganStale(p) == tok0[p] # "" /\ now0[p] >= exp0[p] - 5

(***************************************************************************)
(* C1                                                                      *)
(***************************************************************************)
\* C1, as claimed: a makeRequest call whose first response is 401 ends with
\* exactly one forced Authenticator invocation and exactly one resend.
C1_AlwaysResends ==
    \A p \in Callers :
        (Done(p) /\ UsesMakeRequest(wrapper[p]) /\ First401(p))
            => (refreshes[p] = 1 /\ sends[p] = 2)

\* C1, amended: after a first 401 makeRequest invokes the Authenticator exactly
\* once more, whatever the freshness of the token; it resends exactly once when
\* that invocation succeeds and ends with the refresh error and no resend when
\* it fails; a 401 to the resend is returned as it is, with no third send and
\* no further invocation, and the wrapper reports it as a failure.
C1_RefreshOnceResendOnce ==
    \A p \in Callers :
        /\ sends[p] <= 2 /\ refreshes[p] <= 1
        /\ (UsesMakeRequest(wrapper[p]) /\ First401(p)) =>
              /\ refreshes[p] = 1
              /\ (Done(p) /\ ~AuthFailure(authRes[p])) => sends[p] = 2
              /\ (Done(p) /\ AuthFailure(authRes[p])) =>
                    (sends[p] = 1 /\ err[p].msg = "failed to refresh token")
              /\ (Done(p) /\ resp2[p].cause = "" /\ resp2[p].status = 401) =>
                    /\ sends[p] = 2
                    /\ mrResp[p] = resp2[p]
                    /\ err[p].msg # ""
                    /\ err[p].status = 401

C1_SecondUnauthorized ==
    \E p \in Callers :
        /\ Done(p) /\ First401(p)
        /\ resp2[p].cause = "" /\ resp2[p].status = 401
        /\ BeganFresh(p)

(***************************************************************************)
(* C2                                                                      *)
(***************************************************************************)
\* C2: a call that begins with an empty Token Store makes exactly one
\* Authenticator invocation for freshness, and the first send happens only
\* after that invocation has returned a token, which the send carries.
C2_EmptyStoreAuthenticatesFirst ==
    \A p \in Callers :
        (Running(p) /\ tok0[p] = "") =>
            /\ EnsureCalls(p) = 1
            /\ pc[p] = "auth" => sends[p] = 0
            /\ sends[p] >= 1 => authOks[p] >= 1
            /\ pc[p] = "wait1" =>
                  /\ authCalls[p] = 1 /\ authOks[p] = 1
                  /\ ~AuthFailure(authRes[p])
                  /\ bearer1[p] = "Bearer " \o authRes[p].body.access_token

C2_FirstSendAfterAuth ==
    \E p \in Callers : tok0[p] = "" /\ pc[p] = "wait1" /\ bearer1[p] = "Bearer tok1"

(***************************************************************************)
(* C3                                                                      *)
(***************************************************************************)
\* C3, as claimed: a call made when now >= expiresAt - 5 minutes makes exactly
\* one Authenticator invocation for freshness, before the request is sent.
C3_StaleAuthenticatesOnce ==
    \A p \in Callers :
        (Running(p) /\ BeganStale(p)) =>
            /\ EnsureCalls(p) = 1
            /\ sends[p] >= 1 => authOks[p] >= 1

(***************************************************************************)
(* C4                                                                      *)
(***************************************************************************)
\* C4, as claimed: a call made while the stored token expires more than 5
\* minutes later makes no Authenticator invocation at all.
C4_FreshNeverAuthenticates ==
    \A p \in Callers : (Running(p) /\ BeganFresh(p)) => authCalls[p] = 0

\* C4, amended: such a call makes no Authenticator invocation before its first
\* send; the only invocation it can make is the one forced by a 401 answer to
\* that send.
C4_FreshAuthenticatesOnlyOn401 ==
    \A p \in Callers :
        (Running(p) /\ BeganFresh(p)) =>
            /\ EnsureCalls(p) = 0
            /\ pc[p] # "auth"
            /\ authCalls[p] <= 1
            /\ authCalls[p] = 1 => (UsesMakeRequest(wrapper[p]) /\ First401(p))

C4_FreshCallSent ==
    \E p \in Callers :
        /\ Done(p) /\ BeganFresh(p)
        /\ sends[p] = 1 /\ authCalls[p] = 0 /\ err[p].msg = ""

(***************************************************************************)
(* C5                                                                      *)
(***************************************************************************)
\* The freshness check's Authenticator invocation of the call has failed.
EnsureFailed(p) ==
    /\ EnsureCalls(p) = 1 /\ refreshes[p] = 0 /\ pc[p] # "auth"
    /\ AuthFailure(authRes[p])

\* C5: when the Authenticator invocation made for freshness fails, the call
\* ends with the authentication error (the transport's cause, or the status
\* code and raw body of a non-200 answer, or the decode failure) and no
\* resource request is sent.
C5_AuthFailureSendsNothing ==
    \A p \in Callers :
        EnsureFailed(p) =>
            /\ Done(p)
            /\ sends[p] = 0
            /\ authRes[p].cause # "" =>
                  (err[p].msg = "failed to send request"
                     /\ err[p].cause = authRes[p].cause)
            /\ (authRes[p].cause = "" /\ authRes[p].status # 200) =>
                  /\ err[p].msg = "auth failed with status"
                  /\ err[p].status = authRes[p].status
                  /\ err[p].body = authRes[p].body
            /\ (authRes[p].cause = "" /\ authRes[p].status = 200) =>
                  err[p].msg = "failed to decode response"

C5_AuthAnswered500 ==
    \E p \in Callers :
        /\ EnsureFailed(p) /\ Done(p)
        /\ authRes[p].status = 500 /\ authRes[p].body = EmptyObject

(***************************************************************************)
(* C6                                                                      *)
(***************************************************************************)
\* C6, as claimed: whenever a resource request is handed to the transport (the
\* first send, the resend after a 401, the upload), the Token Store holds a
\* token that expires more than 5 minutes after now, or an Authenticator
\* invocation of this call has just succeeded.
C6_SendHasFreshToken ==
    [][\A p \in Callers :
          sends'[p] > sends[p] =>
              \/ accessToken # "" /\ tokenExpiry > now + 5
              \/ pc[p] = "build" /\ authCalls[p] = 1 /\ authOks[p] = 1
              \/ pc[p] = "resend" /\ ~AuthFailure(authRes[p])]_vars

(***************************************************************************)
(* C7                                                                      *)
(***************************************************************************)
\* C7, as claimed: when the first response is 401 and the forced
\* re-authentication succeeds, the resent request carries the token that
\* re-authentication wrote, the call returns the response to the resend, and a
\* call that began with an empty or stale Token Store has invoked the
\* Authenticator exactly twice.
C7_ResendCarriesNewToken ==
    \A p \in Callers :
        (UsesMakeRequest(wrapper[p]) /\ First401(p) /\ sends[p] = 2) =>
            /\ ~AuthFailure(authRes[p])
            /\ bearer[p] = "Bearer " \o authRes[p].body.access_token
            /\ (Done(p) /\ resp2[p].cause = "") => mrResp[p] = resp2[p]
            /\ (tok0[p] = "" \/ BeganStale(p)) => authCalls[p] = 2

(***************************************************************************)
(* C8                                                                      *)
(***************************************************************************)
\* C8, as claimed: for every endpoint wrapper, a resource request answered
\* with 401 is followed by one forced re-authentication and, when that
\* succeeds, one resend.
C8_EveryWrapperRetries ==
    \A p \in Callers :
        (Done(p) /\ First401(p)) =>
            /\ refreshes[p] = 1
            /\ ~AuthFailure(authRes[p]) => sends[p] = 2

(***************************************************************************)
(* C9                                                                      *)
(***************************************************************************)
\* C9, as claimed: a call that fails because cancellation fired leaves the
\* Token Store as it was before the call.
C9_CancelLeavesStore ==
    \A p \in Callers :
        (Done(p) /\ err[p].cause = "cancelled") =>
            (accessToken = tok0[p] /\ tokenExpiry = exp0[p])

\* C9, amended: the Authenticator invocation during which cancellation fires
\* writes nothing: after a call that fails by cancellation the Token Store
\* holds what the last successful Authenticator invocation of the call wrote,
\* and is as it was before the call when no invocation of the call succeeded.
C9_CancelKeepsGrantedToken ==
    \A p \in Callers :
        (Done(p) /\ err[p].cause = "cancelled") =>
            IF granted[p] = NoBody
              THEN accessToken = tok0[p] /\ tokenExpiry = exp0[p]
              ELSE /\ accessToken = granted[p].access_token
                   /\ tokenExpiry = granted[p].expires_at

C9_CancelledAfterAuth ==
    \E p \in Callers :
        /\ Done(p) /\ err[p].cause = "cancelled"
        /\ granted[p] # NoBody
        /\ accessToken # tok0[p]

(***************************************************************************)
(* C10                                                                     *)
(***************************************************************************)
\* C10: the credential never changes; a step in which an Authenticator
\* invocation returns success sets token value and expiry to the values of
\* the auth response; and no other step changes either of them.
C10_StoreWrittenOnlyByAuth ==
    [][/\ authorization' = authorization
       /\ \A p \in Callers :
             (pc[p] \in {"auth", "reauth"} /\ pc'[p] # pc[p]
                /\ ~AuthFailure(authRes'[p])) =>
                   /\ accessToken' = authRes'[p].body.access_token
                   /\ tokenExpiry' = authRes'[p].body.expires_at
       /\ (accessToken' # accessToken \/ tokenExpiry' # tokenExpiry) =>
             \E p \in Callers :
                /\ pc[p] \in {"auth", "reauth"} /\ pc'[p] # pc[p]
                /\ ~AuthFailure(authRes'[p])]_vars

C10_TokenOverwritten ==
    \E p \in Callers :
        /\ authOks[p] >= 1
        /\ tok0[p] # "" /\ accessToken # tok0[p] /\ tokenExpiry # exp0[p]
        /\ accessToken = granted[p].access_token
        /\ tokenExpiry = granted[p].expires_at

(***************************************************************************)
(* C11                                                                     *)
(***************************************************************************)
\* C11, as claimed: a wrapper that got a response with a non-success status
\* returns an error carrying the status code and the raw body and no value;
\* for a success status (2xx) it goes on to decode and returns no status error.
C11_SuccessStatusDecodes ==
    \A p \in Callers :
        (Done(p) /\ mrResp[p].cause = "") =>
            IF mrResp[p].status >= 200 /\ mrResp[p].status <= 299
              THEN err[p].status = 0
              ELSE /\ err[p].msg # ""
                   /\ err[p].status = mrResp[p].status
                   /\ err[p].body = mrResp[p].body
                   /\ result[p] = "nil"

\* C11, amended: a wrapper that got a response with any status other than 200
\* (204 included) returns an error carrying the status code and the raw body,
\* and no value, without decoding; for status 200 it returns the decoded
\* result (DownloadFile the bytes, DeleteFile nothing) or, when the body does
\* not decode, a decode error.
C11_Non200IsStatusError ==
    \A p \in Callers :
        (Done(p) /\ mrResp[p].cause = "") =>
            IF mrResp[p].status # 200
              THEN /\ err[p].msg # ""
                   /\ err[p].status = mrResp[p].status
                   /\ err[p].body = mrResp[p].body
                   /\ result[p] = "nil"
              ELSE /\ err[p].status = 0
                   /\ err[p].msg = "" <=>
                         (mrResp[p].body.json
                            \/ wrapper[p] \in {"DeleteFile", "DownloadFile"})
                   /\ err[p].msg # "" => result[p] = "nil"
                   /\ err[p].msg = "" =>
                         result[p] = CASE wrapper[p] = "DeleteFile" -> "nil"
                                       [] wrapper[p] = "DownloadFile" -> "bytes"
                                       [] OTHER -> "typed"

C11_NoContentIsAnError ==
    \E p \in Callers :
        /\ Done(p) /\ wrapper[p] = "Chat"
        /\ mrResp[p].cause = "" /\ mrResp[p].status = 204
        /\ err[p].status = 204 /\ result[p] = "nil"

(***************************************************************************)
(* The client used through the adapter: each call is LLM.Call or           *)
(* LLM.GenerateContent, which calls Chat and returns when Chat returns.    *)
(***************************************************************************)
ChatResults == ResourceResults \cup {Response(StatusOK, b) : b \in ChatBodies}

\* The part of a step of caller p that belongs to the adapter: when Chat
\* returns in the step, the method of the adapter returns too.
LLMStep(p) ==
    /\ llmOut' = IF pc'[p] = "done"
                   THEN [llmOut EXCEPT ![p] =
                            LLMResult(llmOp[p], err'[p],
                                      ChatChoices(err'[p], mrResp'[p]))]
                   ELSE llmOut
    /\ UNCHANGED << llmOp, aux >>

NextLLM ==
    \/ \E p \in Callers, op \in LLMOps :
          /\ Serialized(p) /\ Begin(p, "Chat", "text/plain")
          /\ llmOp' = [llmOp EXCEPT ![p] = op]
          /\ UNCHANGED << llmOut, aux >>
    \/ \E p \in Callers, r \in AuthResults :
          Serialized(p) /\ AuthReply(p, r) /\ LLMStep(p)
    \/ \E p \in Callers : Serialized(p) /\ Send(p) /\ LLMStep(p)
    \/ \E p \in Callers : \E m \in BuildFailures(wrapper[p]) :
          Serialized(p) /\ BuildFails(p, m) /\ LLMStep(p)
    \/ \E p \in Callers, r \in ChatResults :
          Serialized(p) /\ Reply1(p, r) /\ LLMStep(p)
    \/ \E p \in Callers, r \in AuthResults :
          Serialized(p) /\ ReauthReply(p, r) /\ LLMStep(p)
    \/ \E p \in Callers : Serialized(p) /\ Resend(p) /\ LLMStep(p)
    \/ \E p \in Callers, r \in ChatResults :
          Serialized(p) /\ Reply2(p, r) /\ LLMStep(p)
    \/ \E p \in Callers :
          /\ Serialized(p) /\ Return(p)
          /\ llmOp' = [llmOp EXCEPT ![p] = "-"]
          /\ llmOut' = [llmOut EXCEPT ![p] = NoOutput]
          /\ UNCHANGED aux
    \/ Tick /\ UNCHANGED << aux, adapter >>

SpecLLM == Init /\ [][NextLLM]_vars

(***************************************************************************)
(* C12                                                                     *)
(***************************************************************************)
\* The Token Store is stale by the test of ensureToken at the present time.
StoreStale == accessToken = "" \/ now > tokenExpiry - 5

\* An invocation made by the freshness check of the call is in flight.
EnsuringToken(p) == pc[p] = "auth"

\* C12, as claimed: while the calls on the client have never overlapped, the
\* freshness check invokes the Authenticator at most once in one stale
\* period, that is, at most once since the Token Store was last written.
C12_OnePerStalePeriod == ~overlapped => staleAuths <= 1

\* C12, amended: a call invokes the Authenticator for freshness at most
\* once; while the calls on the client have never overlapped, such an
\* invocation is in flight only while the Token Store is stale, at most one
\* is in flight at a time, and the invocations counted since the last write
\* of the store fall into a stale period that has not ended (each one after
\* the first follows a failed one).
C12_SequentialEnsuresOnlyWhenStale ==
    /\ \A p \in Callers : EnsureCalls(p) <= 1
    /\ ~overlapped =>
          /\ \A p \in Callers : EnsuringToken(p) => StoreStale
          /\ \A p, q \in Callers : EnsuringToken(p) /\ EnsuringToken(q) => p = q
          /\ staleAuths >= 1 => StoreStale

\* C12: two overlapping calls have read the same stale Token Store, both
\* have decided it is stale and both invocations are in flight.
C12_BothCallsAuthenticate ==
    /\ overlapped
    /\ \A p \in Callers : EnsuringToken(p) /\ refreshes[p] = 0
    /\ tok0[1] = tok0[2] /\ exp0[1] = exp0[2]
    /\ TokenStale(tok0[1], exp0[1], now0[1])
    /\ TokenStale(tok0[2], exp0[2], now0[2])
    /\ staleAuths = 2

(***************************************************************************)
(* C13                                                                     *)
(***************************************************************************)
\* req.Header.Set("Authorization", c.authorization) of GetAccessToken
AuthRequestHeader == authorization

\* C13: a client constructed from the secret "Basic " + k has exactly that
\* secret as its authorization value and as the Authorization header of its
\* auth requests, so that the scheme word appears once, and has the default
\* base URL and auth URL.
C13_SchemeWordOnce ==
    authKey = "Basic " \o AuthKey =>
        /\ authorization = "Basic " \o AuthKey
        /\ AuthRequestHeader = "Basic " \o AuthKey
        /\ baseURL = "https://gigachat.devices.sberbank.ru/api/v1"
        /\ authURL = "https://ngw.devices.sberbank.ru:9443/api/v2/oauth"

(***************************************************************************)
(* C14                                                                     *)
(***************************************************************************)
\* A method of the adapter has returned to caller p.
LLMReturned(p) == Done(p) /\ llmOp[p] \in LLMOps

\* The Chat call of caller p failed: its Authenticator invocation failed, the
\* request could not be built or sent, or the last response did not have
\* status 200 or did not decode.
ChatFailed(p) ==
    \/ mrResp[p] = NoResult
    \/ mrResp[p].cause # ""
    \/ mrResp[p].status # 200
    \/ ~mrResp[p].body.json

\* C14: Call and GenerateContent return an error and no content whenever the
\* Chat call fails or its response has zero choices; otherwise they return
\* no error and exactly the content of the first choice's message.
C14_ErrorOrFirstChoice ==
    \A p \in Callers :
        LLMReturned(p) =>
            IF ChatFailed(p) \/ Len(mrResp[p].body.choices) = 0
              THEN /\ llmOut[p].err # ""
                   /\ llmOut[p].content = ""
                   /\ llmOut[p].value = IF llmOp[p] = "Call" THEN "string"
                                                             ELSE "nil"
                   /\ ChatFailed(p) <=> llmOut[p].inner # ""
              ELSE /\ llmOut[p].err = ""
                   /\ llmOut[p].content = mrResp[p].body.choices[1]
                   /\ llmOut[p].value = IF llmOp[p] = "Call" THEN "string"
                                                             ELSE "response"

\* C14: GenerateContent has returned the first of two choices.
C14_FirstOfTwoChoices ==
    \E p \in Callers :
        /\ LLMReturned(p) /\ llmOp[p] = "GenerateContent"
        /\ sends[p] = 1
        /\ mrResp[p].body.choices = <<"hi", "bye">>
        /\ llmOut[p] = LLMOut("response", "hi", "", "")

(***************************************************************************)
(* C15                                                                     *)
(***************************************************************************)
\* makeRequest of caller p has returned after it sent the request.
Executed(p) == Done(p) /\ UsesMakeRequest(wrapper[p]) /\ sends[p] >= 1

\* The error is one makeRequest returns, not one the wrapper makes of the
\* response that makeRequest returned.
ExecutorError(e) ==
    e.msg \in {"failed to marshal request body", "failed to create request",
               "failed to send request", "failed to refresh token",
               "failed to retry request"}

\* A first send that is not answered with 401 is the only send of the call.
NoRetryOtherwise(p) ==
    /\ resp1[p].cause # "" =>
          /\ err[p].msg = "failed to send request"
          /\ mrResp[p] = NoResult
          /\ refreshes[p] = 0 /\ sends[p] = 1
          /\ authCalls[p] = EnsureCalls(p)
    /\ (resp1[p].cause = "" /\ resp1[p].status # 401) =>
          /\ mrResp[p] = resp1[p]
          /\ ~ExecutorError(err[p])
          /\ refreshes[p] = 0 /\ sends[p] = 1
          /\ authCalls[p] = EnsureCalls(p)

\* C15, as claimed: in a makeRequest call a forced Authenticator invocation
\* and a resend happen exactly when the first response has status 401; a
\* transport failure of the first send ends the call with an error, and a
\* response with another status is returned as it is, both with no further
\* invocation and no resend.
C15_RetryIffUnauthorized ==
    \A p \in Callers :
        Executed(p) =>
            /\ (refreshes[p] = 1 /\ sends[p] = 2) <=> First401(p)
            /\ NoRetryOtherwise(p)

\* C15, amended: a forced Authenticator invocation happens exactly when the
\* first response has status 401, and a resend exactly when that invocation
\* then succeeds; the rest as claimed.
C15_RefreshIffUnauthorized ==
    \A p \in Callers :
        Executed(p) =>
            /\ refreshes[p] = 1 <=> First401(p)
            /\ sends[p] = 2 <=> (First401(p) /\ ~AuthFailure(authRes[p]))
            /\ refreshes[p] <= 1 /\ sends[p] <= 2
            /\ NoRetryOtherwise(p)

\* C15: a call that authenticated for freshness got 403 to its only send, and
\* the wrapper reports the 403 that makeRequest returned.
C15_ForbiddenReturnedAsIs ==
    \E p \in Callers :
        /\ Executed(p) /\ EnsureCalls(p) = 1
        /\ resp1[p].cause = "" /\ resp1[p].status = 403
        /\ mrResp[p] = resp1[p]
        /\ refreshes[p] = 0 /\ sends[p] = 1 /\ err[p].status = 403

(***************************************************************************)
(* C16                                                                     *)
(***************************************************************************)
\* C16: the request resent after a 401 is the first request again: the same
\* method, the same path and the same body bytes.
C16_ResendSameRequest ==
    \A p \in Callers : sends[p] = 2 => wire2[p] = wire1[p]

(***************************************************************************)
(* C17                                                                     *)
(***************************************************************************)
\* How far a call has come.
Rank(l) ==
    CASE l = "idle" -> 0
      [] l = "auth" -> 1
      [] l = "build" -> 2
      [] l = "wait1" -> 3
      [] l = "reauth" -> 4
      [] l = "resend" -> 5
      [] l = "wait2" -> 6
      [] OTHER -> 7

\* The call of caller p has not returned yet.
InCall(p) == pc[p] \notin {"idle", "done"}

\* A step of the call of caller p, the transport answering where it waits.
CallStep(p) ==
    /\ \/ \E r \in AuthResults : AuthReply(p, r)
       \/ Send(p)
       \/ \E m \in BuildFailures(wrapper[p]) : BuildFails(p, m)
       \/ \E r \in ResourceResults : Reply1(p, r)
       \/ \E r \in AuthResults : ReauthReply(p, r)
       \/ Resend(p)
       \/ \E r \in ResourceResults : Reply2(p, r)
    /\ UNCHANGED << aux, adapter >>

\* C17: a call is never stuck while the transport answers, every step takes
\* it further towards its return and none takes it back (no loop), so it
\* returns after at most seven steps, with at most two Authenticator
\* invocations and at most two sends whatever the auth outcomes and the
\* response statuses; a failure of the forced invocation or of the resend
\* ends the call with that failure.
C17_CallEndsWithinBounds ==
    /\ [](\A p \in Callers :
            /\ authCalls[p] <= 2 /\ sends[p] <= 2
            /\ InCall(p) => ENABLED CallStep(p))
    /\ [][\A p \in Callers :
            /\ (InCall(p) /\ pc'[p] # pc[p]) => Rank(pc'[p]) > Rank(pc[p])
            /\ (pc[p] = "reauth" /\ pc'[p] # pc[p] /\ AuthFailure(authRes'[p]))
                  => (pc'[p] = "done" /\ err'[p].msg = "failed to refresh token"
                      /\ sends'[p] = 1)
            /\ (pc[p] = "wait2" /\ pc'[p] # pc[p])
                  => /\ pc'[p] = "done"
                     /\ resp2'[p].cause # "" =>
                           err'[p].msg = "failed to retry request"
                     /\ resp2'[p].cause = "" => mrResp'[p] = resp2'[p]]_vars

\* C17: a call has ended after two Authenticator invocations and two sends,
\* the second send answered with 401 as the first.
C17_BothBoundsReached ==
    \E p \in Callers :
        /\ Done(p) /\ authCalls[p] = 2 /\ sends[p] = 2 /\ EnsureCalls(p) = 1
        /\ resp2[p].cause = "" /\ resp2[p].status = 401

(***************************************************************************)
(* C18                                                                     *)
(***************************************************************************)
\* C18: an Authenticator invocation that returns success has been granted a
\* token that is not empty and leaves it in the Token Store, no request goes
\* out with an empty bearer token, and a call that begins while the stored
\* expiry is more than 5 minutes away does not invoke the Authenticator for
\* freshness.
C18_SuccessStoresToken ==
    \A p \in Callers :
        /\ authOks[p] >= 1 => granted[p].access_token # ""
        /\ (authOks[p] >= 1 /\ pc[p] \in {"build", "resend"}) => accessToken # ""
        /\ sends[p] >= 1 =>
              (bearer1[p] # BearerHeader("") /\ bearer[p] # BearerHeader(""))
        /\ (Running(p) /\ exp0[p] > now0[p] + 5) => EnsureCalls(p) = 0

====
